---- MODULE Spec2Model ----
(***************************************************************************)
(* microaccounting: the table model (MyTableModel), its CSV persistence    *)
(* with timestamped backups, and the chart aggregation and drawing of the  *)
(* main window (MicroAccounting.update_charts, MplCanvas.pie), as a state  *)
(* machine.                                                                *)
(*                                                                         *)
(* A DataFrame is a column order (columns) plus a sequence of rows in      *)
(* positional (iloc) order; each row carries its index label (loc).        *)
(* Row positions and labels are 0-based as in pandas.                      *)
(***************************************************************************)
EXTENDS Integers, Sequences, FiniteSets, TLC

VARIABLES
    data,          \* MyTableModel._data: rows in positional order, each [idx, cells]
    columns,       \* MyTableModel._data.columns: the DataFrame's column order
    data_changed,  \* MyTableModel.data_changed
    file,          \* the file at MicroAccounting.file_path
    backups,       \* the backup files beside it: timestamp |-> content
    now,           \* datetime.now(), in clock ticks
    charts,        \* the three aggregates update_charts last computed, and
                   \* what it handed the three charts to draw
    last,          \* the last operation, its arguments and its outcome
    ops,           \* number of operations performed so far
    window         \* the main window: "open", "closed" (close event accepted)
                   \* or "aborted" (the process ended on an unhandled exception)

vars ==
    <<data, columns, data_changed, file, backups, now, charts, last, ops, window>>

(* ------------------------------ bounds -------------------------------- *)

\* Operations performed in one run, clock ticks that pass in one run, and
\* clock ticks to the second.
MaxOps == 3
MaxClock == 2
TicksPerSecond == 2

(* ------------------------------ columns ------------------------------- *)

Date == "Datum"
Shop == "Geschaeft"
Category == "Kategorie"
Value == "Wert"
Description == "Ausgabe"

displayOrder == <<Date, Category, Shop, Description, Value>>

ColumnNames == {displayOrder[i] : i \in 1..Len(displayOrder)}

\* Key order of the dict insertRow builds its one-row frame from; also the
\* order update_charts unpacks a row in.
insertOrder == <<Date, Shop, Description, Value, Category>>

(* ------------------------------- cells -------------------------------- *)

\* A cell is a Python str or a number.
Str(s) == [k |-> "str", s |-> s]
Num(n) == [k |-> "num", n |-> n]

isinstance_str(c) == c.k = "str"

\* Decimal text of the numbers that occur as amounts.
NumText ==
    (1 :> "1") @@ (2 :> "2") @@ (3 :> "3") @@ (4 :> "4") @@ (5 :> "5")
        @@ (6 :> "6") @@ (7 :> "7") @@ (10 :> "10")

IsNumText(t) == \E n \in DOMAIN NumText : NumText[n] = t

NumOf(t) == CHOOSE n \in DOMAIN NumText : NumText[n] = t

\* The order Python's str comparison gives the date texts (digits sort
\* before letters) and the category and shop names.
StrRank ==
    ("2024-01-05" :> 1) @@ ("2024-01-20" :> 2) @@ ("2024-02-01" :> 3)
        @@ ("not-a-date" :> 4)
        @@ ("" :> 10) @@ ("A" :> 11) @@ ("B" :> 12) @@ ("Other" :> 13)
        @@ ("a" :> 14) @@ ("b" :> 15) @@ ("c" :> 16) @@ ("d" :> 17)
        @@ ("e" :> 18) @@ ("f" :> 19) @@ ("food" :> 20) @@ ("g" :> 21)
        @@ ("h" :> 22) @@ ("transport" :> 23)

\* datetime.strptime(_date, "%Y-%m-%d").strftime("%b %Y"), defined on the
\* texts that parse.
MonthLabel ==
    ("2024-01-05" :> "Jan 2024") @@ ("2024-01-20" :> "Jan 2024")
        @@ ("2024-02-01" :> "Feb 2024")

(* --------------------------- CSV conversion --------------------------- *)

Text(c) == IF isinstance_str(c) THEN c.s ELSE NumText[c.n]

ColumnPos(header, name) == CHOOSE j \in 1..Len(header) : header[j] = name

\* DataFrame.to_csv(file_path, index=False): header row, then every row in
\* positional order, fields in the DataFrame's column order.
to_csv(cols, rows) ==
    [exists |-> TRUE,
     header |-> cols,
     lines  |-> [i \in 1..Len(rows) |->
                    [j \in 1..Len(cols) |-> Text(rows[i].cells[cols[j]])]]]

\* pd.read_csv(file_path, keep_default_na=False): a column whose every field
\* is numeric text becomes a numeric column, any other column keeps its fields
\* as str (empty fields stay ""); labels are 0..n-1 in file order.
read_csv(f) ==
    LET n == Len(f.lines)
        numeric(name) ==
            /\ n > 0
            /\ \A i \in 1..n : IsNumText(f.lines[i][ColumnPos(f.header, name)])
        cell(i, name) ==
            LET t == f.lines[i][ColumnPos(f.header, name)]
            IN  IF numeric(name) THEN Num(NumOf(t)) ELSE Str(t)
    IN  [i \in 1..n |->
            [idx |-> i - 1, cells |-> [name \in ColumnNames |-> cell(i, name)]]]

(* ------------------------------ sorting ------------------------------- *)

SortKey(row) == StrRank[row.cells[Date].s]

\* Put row behind every row of the sorted sequence whose key is not larger.
RECURSIVE InsertSorted(_, _)
InsertSorted(sorted, row) ==
    IF sorted = <<>> THEN <<row>>
    ELSE IF SortKey(sorted[Len(sorted)]) <= SortKey(row)
         THEN Append(sorted, row)
         ELSE Append(InsertSorted(SubSeq(sorted, 1, Len(sorted) - 1), row),
                     sorted[Len(sorted)])

\* Mutation of sort_values: the frame is left in the order it was given.
sort_values_skipped(rows) == rows

\* DataFrame.sort_values(by=Columns.Date): rows reordered by date text, each
\* keeping its label.  Rows of equal date keep their relative order (the
\* sort is an insertion sort on tables of this size).
RECURSIVE sort_values(_)
sort_values(rows) ==
    IF rows = <<>> THEN <<>>
    ELSE InsertSorted(sort_values(SubSeq(rows, 1, Len(rows) - 1)),
                      rows[Len(rows)])

(* ------------------------------ the table ----------------------------- *)

Positions(rows) == 0..(Len(rows) - 1)

ColumnIndexes == 0..(Len(displayOrder) - 1)

\* ColumnsMeta.__getitem__: Columns[x] is the x-th name of the display order.
Columns(x) == displayOrder[x + 1]

\* _data.iloc[row]: the row at a position.
iloc(rows, row) == rows[row + 1]

\* The position of the row that carries a label (labels are always a
\* permutation of the positions).
LabelPos(rows, label) == CHOOSE i \in 1..Len(rows) : rows[i].idx = label

\* _data.loc[label, column]: the cell of the row that carries the label.
loc(rows, label, column) == rows[LabelPos(rows, label)].cells[column]

\* _data.loc[label, column] = value
loc_assign(rows, label, column, value) ==
    [rows EXCEPT ![LabelPos(rows, label)].cells[column] = value]

\* MyTableModel.data(index, EditRole): a number is returned as float(data),
\* a str as it is.
Get(rows, row, column) == iloc(rows, row)[ "cells" ][Columns(column)]

\* MyTableModel.rowCount
rowCount == Len(data)

\* MyTableModel.get_used_categories: set(_data[Columns.Category])
get_used_categories(rows) == {rows[i].cells[Category] : i \in 1..Len(rows)}

\* MyTableModel.get_used_shops: set(_data[Columns.Shop])
get_used_shops(rows) == {rows[i].cells[Shop] : i \in 1..Len(rows)}

\* pd.concat([_data, new], ignore_index=True): the new row goes last and the
\* labels are renumbered 0..n in positional order; the column order stays that
\* of _data, which already holds all five columns.
concat(rows, cells) ==
    [i \in 1..(Len(rows) + 1) |->
        [idx |-> i - 1,
         cells |-> IF i <= Len(rows) THEN rows[i].cells ELSE cells]]

\* What load_csv leaves in _data, for a file system state.
LoadFrame(f) ==
    IF f.exists
    THEN [columns |-> f.header, data |-> sort_values(read_csv(f))]
    ELSE [columns |-> displayOrder, data |-> <<>>]

(* ---------------------------- aggregation ----------------------------- *)

\* A defaultdict(float) in first-seen key order: a sequence of <<key, total>>.
AddTo(d, key, amount) ==
    IF \E i \in 1..Len(d) : d[i][1] = key
    THEN LET i == CHOOSE j \in 1..Len(d) : d[j][1] = key
         IN  [d EXCEPT ![i] = <<key, d[i][2] + amount>>]
    ELSE Append(d, <<key, amount>>)

\* float(_amount) raises ValueError on text that is no number.
FloatOk(c) == ~isinstance_str(c) \/ IsNumText(c.s)

float(c) == IF isinstance_str(c) THEN NumOf(c.s) ELSE c.n

\* datetime.strptime raises ValueError on a str in another format and
\* TypeError on a value that is no str.
StrptimeOk(c) == isinstance_str(c) /\ c.s \in DOMAIN MonthLabel

\* One iteration of the loop of update_charts.  The row is unpacked by
\* position, in the DataFrame's column order.
ChartRow(acc, cols, row) ==
    LET _date    == row.cells[cols[1]]
        shop     == row.cells[cols[2]]
        _amount  == row.cells[cols[4]]
        category == row.cells[cols[5]]
    IN  IF acc.raised THEN acc
        ELSE IF ~FloatOk(_amount) THEN acc
        ELSE IF ~isinstance_str(_date) THEN [acc EXCEPT !.raised = TRUE]
        ELSE IF ~StrptimeOk(_date) THEN acc
        ELSE [raised |-> FALSE,
              category_sums |-> AddTo(acc.category_sums, category, float(_amount)),
              by_month |-> AddTo(acc.by_month, MonthLabel[_date.s], float(_amount)),
              by_shop |-> IF shop # Str("")
                          THEN AddTo(acc.by_shop, shop, float(_amount))
                          ELSE acc.by_shop]

NoCharts ==
    [raised |-> FALSE, category_sums |-> <<>>, by_month |-> <<>>, by_shop |-> <<>>]

RECURSIVE ChartRows(_, _, _)
ChartRows(cols, rows, n) ==
    IF n = 0 THEN NoCharts
    ELSE ChartRow(ChartRows(cols, rows, n - 1), cols, rows[n])

\* Python's < on the labels of one chart: str with str, number with number.
LabelLess(x, y) ==
    CASE isinstance_str(x) /\ isinstance_str(y) -> StrRank[x.s] < StrRank[y.s]
      [] ~isinstance_str(x) /\ ~isinstance_str(y) -> x.n < y.n

\* Python's < on the tuples (sum, label) of zip(data, labels); an entry of a
\* dict is kept here as <<label, sum>>.
TupleLess(a, b) == a[2] < b[2] \/ (a[2] = b[2] /\ LabelLess(a[1], b[1]))

RECURSIVE InsertTuple(_, _)
InsertTuple(sorted, t) ==
    IF sorted = <<>> THEN <<t>>
    ELSE IF TupleLess(t, sorted[Len(sorted)])
         THEN Append(InsertTuple(SubSeq(sorted, 1, Len(sorted) - 1), t),
                     sorted[Len(sorted)])
         ELSE Append(sorted, t)

\* sorted(zip(data, labels)): ascending by sum, equal sums by label.
RECURSIVE sorted_zip(_)
sorted_zip(d) ==
    IF d = <<>> THEN <<>>
    ELSE InsertTuple(sorted_zip(SubSeq(d, 1, Len(d) - 1)), d[Len(d)])

RECURSIVE sum(_)
sum(d) == IF d = <<>> THEN 0 ELSE d[1][2] + sum(Tail(d))

\* Mutation of pie: the rollup starts at six keys instead of seven.
pie_rolls_six(d) ==
    IF Len(d) > 5
    THEN LET s == sorted_zip(d)
         IN  SubSeq(s, Len(s) - 3, Len(s))
                 \o << <<Str("Other"), sum(SubSeq(s, 1, Len(s) - 4))>> >>
    ELSE d

\* MplCanvas.pie(data, labels=labels): the buckets handed to axes.pie, as
\* <<label, value>> in drawing order.
pie(d) ==
    IF Len(d) > 6
    THEN LET s == sorted_zip(d)
         IN  SubSeq(s, Len(s) - 3, Len(s))
                 \o << <<Str("Other"), sum(SubSeq(s, 1, Len(s) - 4))>> >>
    ELSE d

\* MicroAccounting.update_charts over the current table: the aggregation
\* loop, then the two pies and the bar chart.
update_charts(cols, rows) ==
    LET a == ChartRows(cols, rows, Len(rows))
    IN  a @@ [cat_chart |-> pie(a.category_sums),
              shop_chart |-> pie(a.by_shop),
              month_chart |-> a.by_month]

(* ------------------------------- inputs ------------------------------- *)

Row(d, shop, desc, amount, cat) ==
    (Date :> Str(d)) @@ (Shop :> Str(shop)) @@ (Description :> Str(desc))
        @@ (Value :> Num(amount)) @@ (Category :> Str(cat))

\* What the user has entered in the add-entry dialog when pressing OK.
Form(d, shop, desc, amount, cat) ==
    [date |-> d, shop |-> shop, description |-> desc, amount |-> amount,
     category |-> cat]

\* Dialog inputs: three entries that are valid, then a dialog left empty, a
\* zero amount, an empty description, and a description of one blank.
DialogInputs ==
    { Form("2024-01-05", "A", "x", 10, "food"),
      Form("2024-01-20", "", "7", 5, "food"),
      Form("2024-02-01", "B", "z", 3, "transport"),
      Form("2024-01-05", "", "", 0, "food"),
      Form("2024-01-05", "A", "x", 0, "food"),
      Form("2024-01-05", "A", "", 5, "food"),
      Form("2024-01-05", "A", " ", 5, "food") }

\* Cell edits the delegates hand to setData: <<column index, value>>.
Edits ==
    { <<0, Str("2024-02-01")>>, <<1, Str("transport")>>, <<2, Str("")>>,
      <<3, Str("7")>>, <<4, Num(5)>> }

NoFile == [exists |-> FALSE]

CsvFile(header, lines) == [exists |-> TRUE, header |-> header, lines |-> lines]

\* The ledger file found at start-up: none, or a file in the column order
\* insertRow and update_charts use.
InitFiles ==
    { NoFile,
      CsvFile(insertOrder,
              << <<"2024-01-05", "A", "x", "10", "food">>,
                 <<"2024-01-20", "A", "y", "5", "food">>,
                 <<"2024-02-01", "B", "z", "3", "transport">> >>),
      CsvFile(insertOrder,
              << <<"2024-02-01", "B", "z", "3", "transport">>,
                 <<"2024-01-05", "A", "x", "10", "food">> >>),
      CsvFile(insertOrder,
              << <<"not-a-date", "A", "x", "10", "food">>,
                 <<"2024-01-05", "B", "y", "abc", "food">>,
                 <<"2024-01-20", "B", "z", "5", "transport">> >>) }

\* Ledger files with six and seven categories, one row each: sums 1..6, and
\* the sums 1..7 first seen in descending order of the category names.
PieFiles ==
    { CsvFile(insertOrder,
              << <<"2024-01-05", "a", "x", "1", "a">>,
                 <<"2024-01-05", "b", "x", "2", "b">>,
                 <<"2024-01-05", "c", "x", "3", "c">>,
                 <<"2024-01-05", "d", "x", "4", "d">>,
                 <<"2024-01-05", "e", "x", "5", "e">>,
                 <<"2024-01-05", "f", "x", "6", "f">> >>),
      CsvFile(insertOrder,
              << <<"2024-01-05", "g", "x", "1", "g">>,
                 <<"2024-01-05", "f", "x", "2", "f">>,
                 <<"2024-01-05", "e", "x", "3", "e">>,
                 <<"2024-01-05", "d", "x", "4", "d">>,
                 <<"2024-01-05", "c", "x", "5", "c">>,
                 <<"2024-01-05", "b", "x", "6", "b">>,
                 <<"2024-01-05", "a", "x", "7", "a">> >>) }

\* Entries added to such a ledger: a new category, and one already there.
PieInputs ==
    { Form("2024-01-05", "h", "x", 5, "h"), Form("2024-01-05", "a", "x", 5, "a") }

\* Amount edits made to such a ledger.
PieEdits == { <<4, Num(5)>>, <<4, Num(3)>> }

\* datetime.now().strftime("%Y%m%d_%H%M%S"): the clock cut to whole seconds.
Timestamp(t) == t \div TicksPerSecond

(* ------------------------------- actions ------------------------------ *)

\* MicroAccounting.__init__: MyTableModel(file_path) loads, then update_charts.
Init ==
    /\ file \in InitFiles
    /\ backups = <<>>
    /\ now = 0
    /\ columns = LoadFrame(file).columns
    /\ data = LoadFrame(file).data
    /\ data_changed = FALSE
    /\ charts = update_charts(columns, data)
    /\ last = [op |-> "init"]
    /\ ops = 0
    /\ window = "open"

\* MyTableModel.setData(index, value, EditRole), and the update_charts the
\* dataChanged signal triggers.
setData(row, column, value) ==
    /\ ops < MaxOps
    /\ row \in Positions(data)
    /\ LET old_val == loc(data, row, Columns(column))
       IN  IF old_val = value
           THEN /\ UNCHANGED <<data, data_changed, charts>>
                /\ last' = [op |-> "set", row |-> row, column |-> column,
                            value |-> value, emitted |-> FALSE]
           ELSE /\ data' = loc_assign(data, row, Columns(column), value)
                /\ charts' = update_charts(columns, data')
                /\ data_changed' = TRUE
                /\ last' = [op |-> "set", row |-> row, column |-> column,
                            value |-> value, emitted |-> TRUE]
    /\ ops' = ops + 1
    /\ UNCHANGED <<columns, file, backups, now>>

\* MyTableModel.insertRow, and the handle_item_changed that open_entry_dialog
\* calls after it.
insertRow(entry) ==
    /\ ops < MaxOps
    /\ data' = sort_values(concat(data, entry))
    /\ data_changed' = TRUE
    /\ charts' = update_charts(columns, data')
    /\ last' = [op |-> "insert", entry |-> entry]
    /\ ops' = ops + 1
    /\ UNCHANGED <<columns, file, backups, now>>

\* str.strip() on the texts entered in the dialog.
strip(t) == IF t = " " THEN "" ELSE t

\* EntryDialog.accept_if_valid: what pressing OK does.
accept_if_valid(in) ==
    IF in.amount = 0 /\ in.description = "" /\ in.shop = "" THEN "reject"
    ELSE IF in.amount # 0 /\ in.description # "" THEN "accept"
    ELSE IF in.amount = 0 THEN "warning: amount"
    ELSE IF in.description = "" THEN "warning: description"
    ELSE "none"

\* MicroAccounting.open_entry_dialog: the dialog is filled in and OK pressed.
\* An accepted dialog inserts the stripped texts; after a warning the dialog
\* stays open and is cancelled, a rejected dialog closes: nothing is inserted.
open_entry_dialog(in) ==
    IF accept_if_valid(in) = "accept"
    THEN insertRow(Row(in.date, strip(in.shop), strip(in.description),
                       in.amount, strip(in.category)))
    ELSE /\ ops < MaxOps
         /\ last' = [op |-> "dialog", outcome |-> accept_if_valid(in), form |-> in]
         /\ ops' = ops + 1
         /\ UNCHANGED <<data, columns, data_changed, file, backups, now, charts>>

\* MyTableModel.create_backup: copies the file, if there is one, to the
\* backup path of the current second, replacing a backup of that name.
create_backup(fs, t) ==
    IF fs.exists THEN (Timestamp(t) :> fs) @@ backups ELSE backups

\* Mutation of save_csv: the file is written but data_changed is not cleared.
save_csv_keeps_flag ==
    /\ ops < MaxOps
    /\ backups' = create_backup(file, now)
    /\ file' = to_csv(columns, data)
    /\ last' = [op |-> "save", error |-> "none", existed |-> file.exists]
    /\ ops' = ops + 1
    /\ UNCHANGED <<data, columns, data_changed, now, charts>>

\* MyTableModel.save_csv when neither the copy nor the write fails.
save_csv ==
    /\ ops < MaxOps
    /\ backups' = create_backup(file, now)
    /\ file' = to_csv(columns, data)
    /\ data_changed' = FALSE
    /\ last' = [op |-> "save", error |-> "none", existed |-> file.exists]
    /\ ops' = ops + 1
    /\ UNCHANGED <<data, columns, now, charts>>

\* save_csv when shutil.copyfile raises: the error leaves save_csv at once.
save_csv_backup_error ==
    /\ ops < MaxOps
    /\ file.exists
    /\ last' = [op |-> "save", error |-> "backup", existed |-> file.exists]
    /\ ops' = ops + 1
    /\ UNCHANGED <<data, columns, data_changed, file, backups, now, charts>>

\* Mutation of save_csv_write_error: data_changed is cleared before the write
\* is attempted.
save_csv_write_error_clears ==
    /\ ops < MaxOps
    /\ backups' = create_backup(file, now)
    /\ data_changed' = FALSE
    /\ last' = [op |-> "save", error |-> "write", existed |-> file.exists]
    /\ ops' = ops + 1
    /\ UNCHANGED <<data, columns, file, now, charts>>

\* save_csv when to_csv cannot open the path for writing: the backup has
\* been made, the error leaves save_csv before data_changed is cleared.
save_csv_write_error ==
    /\ ops < MaxOps
    /\ backups' = create_backup(file, now)
    /\ last' = [op |-> "save", error |-> "write", existed |-> file.exists]
    /\ ops' = ops + 1
    /\ UNCHANGED <<data, columns, data_changed, file, now, charts>>

\* Mutation of load_csv: data_changed is left as it was.
load_csv_keeps_flag ==
    /\ ops < MaxOps
    /\ columns' = LoadFrame(file).columns
    /\ data' = LoadFrame(file).data
    /\ charts' = update_charts(columns', data')
    /\ last' = [op |-> "load"]
    /\ ops' = ops + 1
    /\ UNCHANGED <<data_changed, file, backups, now>>

\* MicroAccounting.load_csv: MyTableModel.load_csv, then update_charts.
load_csv ==
    /\ ops < MaxOps
    /\ columns' = LoadFrame(file).columns
    /\ data' = LoadFrame(file).data
    /\ data_changed' = FALSE
    /\ charts' = update_charts(columns', data')
    /\ last' = [op |-> "load"]
    /\ ops' = ops + 1
    /\ UNCHANGED <<file, backups, now>>

\* Time passes on the wall clock.
Tick ==
    /\ now < MaxClock
    /\ now' = now + 1
    /\ UNCHANGED <<data, columns, data_changed, file, backups, charts, last, ops>>

\* MicroAccounting.closeEvent while nothing is unsaved: accepted unasked.
closeEvent_clean ==
    /\ ops < MaxOps
    /\ window = "open"
    /\ ~data_changed
    /\ window' = "closed"
    /\ last' = [op |-> "close", asked |-> FALSE, reply |-> "none"]
    /\ ops' = ops + 1
    /\ UNCHANGED <<data, columns, data_changed, file, backups, now, charts>>

\* closeEvent with unsaved changes, answer Yes: save_csv, then accept.  When
\* save_csv raises, the exception leaves closeEvent before event.accept() and
\* nothing has called event.ignore(): the close event stays accepted as it was
\* created, or the unhandled exception ends the process.
closeEvent_yes ==
    /\ window = "open"
    /\ data_changed
    /\ \/ save_csv /\ window' = "closed"
       \/ (save_csv_backup_error \/ save_csv_write_error)
              /\ window' \in {"closed", "aborted"}

\* closeEvent with unsaved changes, answer No: accepted without saving.
closeEvent_no ==
    /\ ops < MaxOps
    /\ window = "open"
    /\ data_changed
    /\ window' = "closed"
    /\ last' = [op |-> "close", asked |-> TRUE, reply |-> "No"]
    /\ ops' = ops + 1
    /\ UNCHANGED <<data, columns, data_changed, file, backups, now, charts>>

\* closeEvent with unsaved changes, answer Cancel (or the question closed):
\* event.ignore().
closeEvent_cancel ==
    /\ ops < MaxOps
    /\ window = "open"
    /\ data_changed
    /\ last' = [op |-> "close", asked |-> TRUE, reply |-> "Cancel"]
    /\ ops' = ops + 1
    /\ UNCHANGED <<data, columns, data_changed, file, backups, now, charts, window>>

\* The window is open and stays open: the step is none of closeEvent.
WindowOpen == window = "open" /\ UNCHANGED window

\* The slot of actionSave raised: the exception reaches the event loop, where
\* it is reported and the window lives on, or it ends the process.
SlotRaised == window = "open" /\ window' \in {"open", "aborted"}

SetStep == \E row \in Positions(data), e \in Edits : setData(row, e[1], e[2])

DialogStep == \E in \in DialogInputs : open_entry_dialog(in)

Next ==
    \/ WindowOpen /\ SetStep
    \/ WindowOpen /\ DialogStep
    \/ WindowOpen /\ save_csv
    \/ SlotRaised /\ save_csv_backup_error
    \/ SlotRaised /\ save_csv_write_error
    \/ WindowOpen /\ load_csv
    \/ WindowOpen /\ Tick
    \/ closeEvent_clean
    \/ closeEvent_yes
    \/ closeEvent_no
    \/ closeEvent_cancel

Spec == Init /\ [][Next]_vars

\* The same window started on a ledger of many categories.
PieInit ==
    /\ file \in PieFiles
    /\ backups = <<>>
    /\ now = 0
    /\ columns = LoadFrame(file).columns
    /\ data = LoadFrame(file).data
    /\ data_changed = FALSE
    /\ charts = update_charts(columns, data)
    /\ last = [op |-> "init"]
    /\ ops = 0
    /\ window = "open"

PieSetStep == \E row \in Positions(data), e \in PieEdits : setData(row, e[1], e[2])

PieDialogStep == \E in \in PieInputs : open_entry_dialog(in)

PieNext ==
    \/ WindowOpen /\ PieSetStep
    \/ WindowOpen /\ PieDialogStep

PieSpec == PieInit /\ [][PieNext]_vars

(* ----------------------- vocabulary of the claims --------------------- *)

\* The step just taken was an operation of the given kind.
SetDone == ops' = ops + 1 /\ last'.op = "set"
InsertDone == ops' = ops + 1 /\ last'.op = "insert"
LoadDone == ops' = ops + 1 /\ last'.op = "load"
SaveOkDone == ops' = ops + 1 /\ last'.op = "save" /\ last'.error = "none"
SaveFailedDone == ops' = ops + 1 /\ last'.op = "save" /\ last'.error # "none"

Count(rows, cells) == Cardinality({i \in 1..Len(rows) : rows[i].cells = cells})

RowSet(rows) == {rows[i].cells : i \in 1..Len(rows)}

\* The two tables hold the same rows, each as often, in whatever order.
SameRows(a, b) ==
    /\ Len(a) = Len(b)
    /\ \A c \in RowSet(a) \cup RowSet(b) : Count(a, c) = Count(b, c)

\* Ascending date order, by position.
DateSorted(rows) ==
    \A i \in 1..Len(rows), j \in 1..Len(rows) :
        i < j => SortKey(rows[i]) <= SortKey(rows[j])

\* Some row sits at a position other than its label.
LabelsMoved(rows) == \E i \in 1..Len(rows) : rows[i].idx # i - 1

\* The row's date parses as YYYY-MM-DD and its amount as a number.
WellFormed(row) == StrptimeOk(row.cells[Date]) /\ FloatOk(row.cells[Value])

RECURSIVE SumAmounts(_, _)
SumAmounts(rows, I) ==
    IF I = {} THEN 0
    ELSE LET i == CHOOSE x \in I : TRUE
         IN  float(rows[i].cells[Value]) + SumAmounts(rows, I \ {i})

\* key |-> sum of the amounts of the rows of I with that key.
SumsBy(rows, I, Key(_)) ==
    [k \in {Key(rows[i]) : i \in I} |->
        SumAmounts(rows, {i \in I : Key(rows[i]) = k})]

CategoryOf(row) == row.cells[Category]
ShopOf(row) == row.cells[Shop]
MonthOf(row) == MonthLabel[row.cells[Date].s]

\* The mapping an ordered dict stands for.
MapOf(d) ==
    [k \in {d[i][1] : i \in 1..Len(d)} |->
        d[CHOOSE i \in 1..Len(d) : d[i][1] = k][2]]

\* The charts hold the three aggregates of the rows of I, taken by column name.
ChartsAre(rows, I) ==
    /\ MapOf(charts.category_sums) = SumsBy(rows, I, CategoryOf)
    /\ MapOf(charts.by_shop) =
           SumsBy(rows, {i \in I : ShopOf(rows[i]) # Str("")}, ShopOf)
    /\ MapOf(charts.by_month) = SumsBy(rows, I, MonthOf)

(* -------------------------------- claims ------------------------------ *)

\* C1: set(r, c, v) followed by get(r, c) returns v, and every other cell of
\* the table is as it was before the set.
C1_SetThenGet ==
    [][SetDone =>
        /\ Get(data', last'.row, last'.column) = last'.value
        /\ \A r \in Positions(data), c \in ColumnIndexes :
              <<r, c>> # <<last'.row, last'.column>>
                  => Get(data', r, c) = Get(data, r, c)]_vars

\* C2: when every row is well formed, the charts hold for each category the
\* sum of the amounts of its rows, for each non-empty shop the sum of its
\* rows, and for each month label the sum of the rows dated in that month,
\* whichever column order the table has.
C2_Aggregates ==
    (\A i \in 1..Len(data) : WellFormed(data[i]))
        => ChartsAre(data, 1..Len(data))

\* C3: an insert leaves the rows in ascending date order, adds exactly the
\* entry to the rows (one more row, an equal row is kept as well), and puts an
\* entry dated before every existing row at position 0.
C3_InsertSorted ==
    [][InsertDone =>
        /\ DateSorted(data')
        /\ Len(data') = Len(data) + 1
        /\ \A c \in RowSet(data') :
              Count(data', c) = Count(data, c) + (IF c = last'.entry THEN 1 ELSE 0)
        /\ (\A i \in 1..Len(data) : SortKey([cells |-> last'.entry]) < SortKey(data[i]))
              => iloc(data', 0).cells = last'.entry]_vars

\* C3 witness: an insert into a table of two or more rows has moved the
\* appended entry (it carries the last label) to position 0.
C3_Witness ==
    /\ last.op = "insert"
    /\ Len(data) >= 3
    /\ iloc(data, 0).cells = last.entry
    /\ iloc(data, 0).idx = Len(data) - 1

\* C4: data_changed is false after construction, after a load and after a
\* successful save; true after an insert and after a set that changes the
\* table; and once true it stays true over every step that is not a
\* successful save or a load.
C4_DirtyLifecycle ==
    /\ ~data_changed
    /\ [][/\ (LoadDone \/ SaveOkDone) => ~data_changed'
          /\ (InsertDone \/ (SetDone /\ data' # data)) => data_changed'
          /\ (data_changed /\ ~(LoadDone \/ SaveOkDone)) => data_changed']_vars

\* C4 witness: the table was saved over an existing file (a backup exists),
\* and a later insert has made it dirty again.
C4_Witness ==
    /\ last.op = "insert"
    /\ data_changed
    /\ DOMAIN backups # {}

\* C5: a successful save adds exactly one backup file when the target
\* existed, and none when it did not.
C5_OneNewBackup ==
    [][SaveOkDone =>
        Cardinality(DOMAIN backups' \ DOMAIN backups)
            = (IF file.exists THEN 1 ELSE 0)]_vars

\* C6: a save over an existing file stores the file's content in a backup,
\* and a backup that exists is still there, with the same content, after
\* every step.
C6_BackupsKept ==
    [][/\ (SaveOkDone /\ file.exists)
              => \E t \in DOMAIN backups' : backups'[t] = file
       /\ \A t \in DOMAIN backups :
              t \in DOMAIN backups' /\ backups'[t] = backups[t]]_vars

\* C7: a set whose value equals what get shows for that cell changes neither
\* the table nor data_changed and emits no dataChanged.
C7_SetSameValueNoOp ==
    [][(SetDone /\ last'.value = Get(data, last'.row, last'.column)) =>
        /\ data' = data
        /\ data_changed' = data_changed
        /\ ~last'.emitted]_vars

\* C8: a load that follows a successful save yields the rows that were in
\* memory at the save, each as often.
C8_SaveLoadRoundTrip ==
    [][(last.op = "save" /\ last.error = "none" /\ LoadDone)
          => SameRows(data', data)]_vars

\* C9: a save that fails leaves data_changed and the table as they were, and
\* its caller gets the error.
C9_FailedSaveKeepsDirty ==
    [][SaveFailedDone =>
        /\ data_changed' = data_changed
        /\ data' = data
        /\ columns' = columns]_vars

\* C9 witness: a dirty table whose save failed in the write, after the backup
\* was made, is still dirty.
C9_Witness ==
    /\ last.op = "save"
    /\ last.error = "write"
    /\ data_changed
    /\ DOMAIN backups # {}

\* C10: the charts hold the aggregates of exactly the well-formed rows (a row
\* whose date or amount does not parse adds to none of them), and
\* update_charts has not raised.
C10_BadRowsSkipped ==
    /\ ~charts.raised
    /\ ChartsAre(data, {i \in 1..Len(data) : WellFormed(data[i])})

(* ------------------------------- C11 ---------------------------------- *)

Entries_(d) == {d[i] : i \in 1..Len(d)}

\* The four buckets a drawn pie keeps besides "Other".
Kept(out) == {out[i] : i \in 1..4}

\* Everything the rollup claims but the choice among equal sums: a dict of
\* more than 6 keys is drawn as 5 buckets, four of its own entries, none
\* smaller than an entry left out, and "Other" with the sum of the entries
\* left out; a dict of 6 or fewer keys is drawn as it is.
RollupOf(d, out) ==
    IF Len(d) > 6
    THEN /\ Len(out) = 5
         /\ Kept(out) \subseteq Entries_(d)
         /\ Cardinality(Kept(out)) = 4
         /\ \A k \in Kept(out), r \in Entries_(d) \ Kept(out) : r[2] <= k[2]
         /\ out[5][1] = Str("Other")
         /\ out[5][2] = sum(d) - (out[1][2] + out[2][2] + out[3][2] + out[4][2])
    ELSE out = d

RECURSIVE InsertBySum(_, _)
InsertBySum(sorted, t) ==
    IF sorted = <<>> THEN <<t>>
    ELSE IF t[2] < sorted[Len(sorted)][2]
         THEN Append(InsertBySum(SubSeq(sorted, 1, Len(sorted) - 1), t),
                     sorted[Len(sorted)])
         ELSE Append(sorted, t)

\* A stable ascending sort on the sum alone: equal sums stay in first-seen
\* order.
RECURSIVE StableBySum(_)
StableBySum(d) ==
    IF d = <<>> THEN <<>>
    ELSE InsertBySum(StableBySum(SubSeq(d, 1, Len(d) - 1)), d[Len(d)])

\* Among equal sums the entries kept are the last of a stable sort on the sum.
TiesStable(d, out) ==
    Len(d) > 6 =>
        Kept(out) = Entries_(SubSeq(StableBySum(d), Len(d) - 3, Len(d)))

\* Among equal sums the entries kept are those with the greater labels.
TiesByLabel(d, out) ==
    Len(d) > 6 =>
        \A k \in Kept(out), r \in Entries_(d) \ Kept(out) :
            r[2] = k[2] => LabelLess(r[1], k[1])

\* C11 as stated: the category and the shop pie are the rollup of their
\* aggregate, and among keys of equal sums a stable sort on the sum decides
\* which are kept.
C11_RollupStableTies ==
    /\ RollupOf(charts.category_sums, charts.cat_chart)
    /\ RollupOf(charts.by_shop, charts.shop_chart)
    /\ TiesStable(charts.category_sums, charts.cat_chart)
    /\ TiesStable(charts.by_shop, charts.shop_chart)

\* C11 as amended: the category and the shop pie are the rollup of their
\* aggregate, and among keys of equal sums those with the greater label are
\* kept.
C11_RollupLabelTies ==
    /\ RollupOf(charts.category_sums, charts.cat_chart)
    /\ RollupOf(charts.by_shop, charts.shop_chart)
    /\ TiesByLabel(charts.category_sums, charts.cat_chart)
    /\ TiesByLabel(charts.by_shop, charts.shop_chart)

\* C11 witness: a category aggregate of more than 6 keys was drawn as 5
\* buckets, and a key left out has the same sum as a key kept.
C11_Witness ==
    /\ Len(charts.category_sums) > 6
    /\ Len(charts.cat_chart) = 5
    /\ \E k \in Kept(charts.cat_chart) :
         \E r \in Entries_(charts.category_sums) \ Kept(charts.cat_chart) :
            r[2] = k[2]

(* ------------------------------- C12 ---------------------------------- *)

\* The distinct non-empty values of a column.
NonEmptyValues(rows, column) ==
    {rows[i].cells[column] : i \in 1..Len(rows)} \ {Str("")}

\* C12: get_used_categories and get_used_shops return exactly the distinct
\* non-empty values of the Category and of the Shop column.
C12_UsedValuesNonEmpty ==
    /\ get_used_categories(data) = NonEmptyValues(data, Category)
    /\ get_used_shops(data) = NonEmptyValues(data, Shop)

(* ------------------------------- C13 ---------------------------------- *)

\* C13: loading while no ledger file exists, at construction or later, gives
\* a table of zero rows with the columns Date, Category, Shop, Description,
\* Value and a clean data_changed, and creates neither the ledger file nor a
\* backup file.
C13_MissingFileLoad ==
    /\ ~file.exists =>
          /\ data = <<>>
          /\ columns = <<Date, Category, Shop, Description, Value>>
          /\ ~data_changed
          /\ DOMAIN backups = {}
    /\ [][(LoadDone /\ ~file.exists) =>
             /\ data' = <<>>
             /\ columns' = <<Date, Category, Shop, Description, Value>>
             /\ ~data_changed'
             /\ ~file'.exists
             /\ backups' = backups]_vars

\* C13 witness: a load found no ledger file after an earlier operation (the
\* rows that operation added are gone).
C13_Witness ==
    /\ last.op = "load"
    /\ ~file.exists
    /\ ops >= 2
    /\ data = <<>>

(* ------------------------------- C14 ---------------------------------- *)

\* A step in which closeEvent ran and did not save.
CloseDone == ops' = ops + 1 /\ last'.op = "close"

\* C14: a close request while data_changed is false is accepted unasked;
\* while it is true the user is asked and the window goes away only after
\* Yes, with a save that has cleared data_changed, or after No, with file
\* and backups unchanged; Cancel leaves window, ledger, file and data_changed
\* as they were.  Hence a window that is gone has unsaved changes only after
\* the answer No.
C14_CloseProtocol ==
    /\ [][(CloseDone /\ ~data_changed) =>
             /\ ~last'.asked
             /\ window' = "closed"]_vars
    /\ [][(CloseDone /\ data_changed) => last'.asked]_vars
    /\ [][(window = "open" /\ window' # "open" /\ data_changed) =>
             \/ SaveOkDone /\ ~data_changed'
             \/ /\ CloseDone
                /\ last'.reply = "No"
                /\ file' = file
                /\ backups' = backups]_vars
    /\ [][(CloseDone /\ last'.reply = "Cancel") =>
             /\ window' = "open"
             /\ data' = data
             /\ file' = file
             /\ data_changed' = data_changed]_vars
    /\ [](window # "open" /\ data_changed
             => last.op = "close" /\ last.reply = "No")

(* ------------------------------- C15 ---------------------------------- *)

\* A step in which the add-entry dialog ended without an insert.
DialogDone == ops' = ops + 1 /\ last'.op = "dialog"

\* C15: every row the add-entry dialog inserts has a non-zero amount and a
\* non-empty description, whatever was entered; a dialog with zero amount,
\* empty description and empty shop is dismissed, any other dialog with a
\* zero amount or a description that is empty or blank gives a warning, and
\* neither inserts anything.
C15_DialogValidated ==
    [][/\ InsertDone =>
             /\ last'.entry[Value] # Num(0)
             /\ last'.entry[Description] # Str("")
       /\ DialogDone =>
             /\ data' = data
             /\ data_changed' = data_changed
             /\ last'.outcome = "reject"
                   <=> /\ last'.form.amount = 0
                       /\ last'.form.description = ""
                       /\ last'.form.shop = ""
             /\ last'.outcome \in {"reject", "warning: amount",
                                   "warning: description"}]_vars

====
